---- MODULE Spec2Model ----
(***************************************************************************)
(* Model of the source-map resolution engine of src/src/devtools.ts        *)
(* (lines 1-247): the LRUCache class, the two caches, the settings         *)
(* snapshot, findMatchingConfigs and the processResource pipeline, one     *)
(* action per stretch of code between two awaits.                          *)
(***************************************************************************)
EXTENDS Integers, Sequences, FiniteSets, TLC

\* ------------------------------------------------------------- bounds
\* Capacity handed to the LRUCache constructor.  The program passes 200 to
\* both instances (lines 30-31); the class is checked at small capacities.
MaxSize == 1
\* Pipelines that may be in flight at the same time.
NumPipelines == 2
\* Resource-added events delivered in one run.
MaxEvents == 2
\* The LRUCache harness: the largest capacity constructed, and the number of
\* get, set and clear calls issued in one run.
HarnessMaxSize == 3
MaxOps == 5

Procs == 1..NumPipelines

\* ------------------------------------------------------------- JS values
\* Strings that stand for the JS values undefined and null where a string
\* is expected; "" is the empty string.
Undefined == "undefined"
Null == "null"

\* !s for a string-or-absent value.
FalsyStr(s) == s \in {Undefined, Null, ""}

\* Values an artifact lookup can parse to.  An array carries its elements,
\* an object stands for a JSON error body such as {"detail": ...}.
JsUndefined == [tag |-> "undefined", items |-> <<>>]
JsNull == [tag |-> "null", items |-> <<>>]
JsObject == [tag |-> "object", items |-> <<>>]
JsArray(items) == [tag |-> "array", items |-> items]

\* !v for a JS value: arrays (also empty ones) and objects are truthy.
Falsy(v) == v.tag \in {"undefined", "null"}

\* ------------------------------------------------------------- Map / LRUCache
\* A JS Map is the sequence of its entries in insertion order.
MapKeys(m) == {m[i].k : i \in 1..Len(m)}

MapHas(m, key) == key \in MapKeys(m)

MapGet(m, key) ==
  IF MapHas(m, key)
  THEN (CHOOSE e \in {m[i] : i \in 1..Len(m)} : e.k = key).v
  ELSE JsUndefined

MapDelete(m, key) == SelectSeq(m, LAMBDA e : e.k # key)

\* Map.prototype.set: a present key keeps its place, a new key goes last.
MapSet(m, key, val) ==
  IF MapHas(m, key)
  THEN [i \in 1..Len(m) |-> IF m[i].k = key THEN [k |-> key, v |-> val] ELSE m[i]]
  ELSE Append(m, [k |-> key, v |-> val])

\* An LRUCache instance (lines 3-8): its maxSize and its Map.
NewLRUCache(maxSize) == [maxSize |-> maxSize, cache |-> <<>>]

Keys(c) == MapKeys(c.cache)
Size(c) == Len(c.cache)

\* A get that finds nothing.
LRUGetAlwaysMiss(c, key) == JsUndefined

\* A get that takes an empty list for an absent value.
LRUGetEmptyIsMiss(c, key) ==
  LET val == MapGet(c.cache, key)
  IN IF Falsy(val) \/ (val.tag = "array" /\ val.items = <<>>) THEN JsUndefined ELSE val

\* LRUCache.get (lines 9-15): the value returned ...
LRUGet(c, key) ==
  LET val == MapGet(c.cache, key)
  IN IF Falsy(val) THEN JsUndefined ELSE val

\* A get that leaves the order of the entries alone.
LRUTouchNoRefresh(c, key) == c

\* ... and the instance it leaves: a hit is deleted and set again.
LRUTouch(c, key) ==
  LET val == MapGet(c.cache, key)
  IN IF Falsy(val) THEN c
     ELSE [c EXCEPT !.cache = MapSet(MapDelete(c.cache, key), key, val)]

\* A set that never evicts.
LRUSetNoEvict(c, key, val) ==
  [c EXCEPT !.cache = MapSet(MapDelete(c.cache, key), key, val)]

\* A set that stores nothing.
LRUSetNoStore(c, key, val) == c

\* A set that leaves a key that is present with the value it has.
LRUSetKeepFirst(c, key, val) ==
  IF MapHas(c.cache, key) THEN c
  ELSE LET c2 == MapSet(c.cache, key, val)
       IN [c EXCEPT !.cache = IF Len(c2) > c.maxSize THEN MapDelete(c2, c2[1].k) ELSE c2]

\* LRUCache.set (lines 16-24).
LRUSet(c, key, val) ==
  LET c1 == IF MapHas(c.cache, key) THEN MapDelete(c.cache, key) ELSE c.cache
      c2 == MapSet(c1, key, val)
  IN [c EXCEPT !.cache = IF Len(c2) > c.maxSize THEN MapDelete(c2, c2[1].k) ELSE c2]

\* LRUCache.clear (lines 25-27).
LRUClear(c) == [c EXCEPT !.cache = <<>>]

\* ------------------------------------------------------------- settings
\* A ProjectConfig (lines 38-44) keeps the fields the engine reads; urlPattern
\* is the sequence of its characters.
Cfg(org, proj, pat) == [organization |-> org, project |-> proj, urlPattern |-> pat]

\* result.sentryAuthToken || null  and  result.projectConfigs || []
\* (lines 55-58): what loadConfig makes of the stored values.  A stored
\* config list that was never written is the empty sequence here.
LoadedConfig(stored) ==
  [sentryAuthToken |-> IF FalsyStr(stored.sentryAuthToken) THEN Null
                       ELSE stored.sentryAuthToken,
   projectConfigs |-> stored.projectConfigs]

\* ------------------------------------------------------------- pattern matcher
Range(s) == {s[i] : i \in 1..Len(s)}

\* pc.urlPattern.replace(/\*/g, ".*")
RECURSIVE RegexSource(_)
RegexSource(pat) ==
  IF pat = <<>> THEN <<>>
  ELSE (IF Head(pat) = "*" THEN <<".", "*">> ELSE <<Head(pat)>>)
       \o RegexSource(Tail(pat))

\* new RegExp(`^${regexPattern}$`) throws on an unterminated group and on a
\* quantifier with nothing to repeat.  The expression is read left to
\* right; before is "start" when nothing can be repeated, "atom" after an
\* atom, "quant" after a quantifier (which a "?" may then make lazy).
RECURSIVE RegexParses(_, _)
RegexParses(src, before) ==
  IF src = <<>> THEN TRUE
  ELSE IF Head(src) = "(" THEN FALSE
  ELSE IF Head(src) \in {"*", "?"}
       THEN IF before = "atom" THEN RegexParses(Tail(src), "quant")
            ELSE IF before = "quant" /\ Head(src) = "?"
                 THEN RegexParses(Tail(src), "start")
                 ELSE FALSE
       ELSE RegexParses(Tail(src), "atom")

RegexCompiles(src) == RegexParses(src, "start")

AtomMatches(atom, ch) == atom = "." \/ atom = ch

\* What follows the quantifier of the first atom, if it has one.
AfterQuantifier(src) ==
  IF Len(src) >= 3 /\ src[3] = "?" THEN SubSeq(src, 4, Len(src))
  ELSE SubSeq(src, 3, Len(src))

\* regex.test(url) for the anchored expression that compiled: literals, ".",
\* "<atom>*" and "<atom>?", greedy or lazy.
RECURSIVE RegexTest(_, _)
RegexTest(src, url) ==
  IF src = <<>> THEN url = <<>>
  ELSE IF Len(src) >= 2 /\ src[2] = "*"
       THEN \/ RegexTest(AfterQuantifier(src), url)
            \/ /\ url # <<>>
               /\ AtomMatches(src[1], Head(url))
               /\ RegexTest(src, Tail(url))
       ELSE IF Len(src) >= 2 /\ src[2] = "?"
       THEN \/ RegexTest(AfterQuantifier(src), url)
            \/ /\ url # <<>>
               /\ AtomMatches(src[1], Head(url))
               /\ RegexTest(AfterQuantifier(src), Tail(url))
       ELSE /\ url # <<>>
            /\ AtomMatches(src[1], Head(url))
            /\ RegexTest(Tail(src), Tail(url))

\* The filter callback of findMatchingConfigs (lines 77-86).
PatternMatches(pat, url) ==
  LET src == RegexSource(pat)
  IN IF RegexCompiles(src) THEN RegexTest(src, url) ELSE FALSE

\* A filter that gives up at the first pattern that does not compile.
FindMatchingConfigsAbortOnBad(configs, url) ==
  IF \E i \in 1..Len(configs) : ~RegexCompiles(RegexSource(configs[i].urlPattern))
  THEN <<>>
  ELSE SelectSeq(configs, LAMBDA pc : PatternMatches(pc.urlPattern, url))

\* findMatchingConfigs(url) over the global config's list (lines 76-88).
FindMatchingConfigs(configs, url) ==
  SelectSeq(configs, LAMBDA pc : PatternMatches(pc.urlPattern, url))

\* ------------------------------------------------------------- debug id
\* A resource's content as getContent hands it over: absent, or a text in
\* which the sentry-dbid-<uuid> marker and the //# debugId= line are each
\* present (with their captured group) or not.
NoContent == [tag |-> "none", dbid |-> Undefined, comment |-> Undefined]
Text(dbid, comment) == [tag |-> "text", dbid |-> dbid, comment |-> comment]

\* A scan that looks for the //# debugId= line first.
ExtractCommentFirst(content) ==
  IF content.tag = "none" THEN Undefined
  ELSE IF content.comment # Undefined THEN content.comment
  ELSE IF content.dbid # Undefined THEN content.dbid
  ELSE Undefined

\* The getContent callback (lines 122-146): the value the promise resolves to.
ExtractDebugId(content) ==
  IF content.tag = "none" THEN Undefined
  ELSE IF content.dbid # Undefined THEN content.dbid
  ELSE IF content.comment # Undefined THEN content.comment
  ELSE Undefined

\* ------------------------------------------------------------- URLs
\* The lookup URL of line 160, as the tuple of the template's parts.
LookupUrl(org, proj, debugId) ==
  <<"https://sentry.io/api/0/projects/", org, "/", proj,
    "/artifact-lookup/?debug_id=", debugId>>

\* A parsed URL (new URL(bundleInfo.url), line 177).
Url(protocol, hostname, port, pathname) ==
  [protocol |-> protocol, hostname |-> hostname, port |-> port, pathname |-> pathname]

\* The URL standard's special schemes and their default ports.
SpecialScheme(protocol) == protocol \in {"http:", "https:", "ws:", "wss:", "ftp:", "file:"}

DefaultPort(protocol) ==
  CASE protocol = "http:" -> "80"
    [] protocol = "https:" -> "443"
    [] OTHER -> ""

\* url.hostname = value
SetHostname(url, value) == [url EXCEPT !.hostname = value]

\* url.protocol = value: the setter does nothing when it would turn a
\* special scheme into a non-special one or back; a port that is the new
\* scheme's default is dropped.
SetProtocol(url, value) ==
  IF SpecialScheme(url.protocol) # SpecialScheme(value) THEN url
  ELSE [url EXCEPT !.protocol = value,
                   !.port = IF url.port = DefaultPort(value) THEN "" ELSE url.port]

\* url.port = ""
SetPort(url, value) == [url EXCEPT !.port = value]

\* A normalization that leaves the host as it is.
NormalizeKeepHost(url) == SetPort(SetProtocol(url, "https:"), "")

\* Lines 177-180.
NormalizeBundleUrl(url) ==
  SetPort(SetProtocol(SetHostname(url, "sentry.io"), "https:"), "")

\* zipUrl.toString()
UrlToString(url) ==
  <<url.protocol, "//", url.hostname,
    IF url.port = "" THEN "" ELSE ":", url.port, url.pathname>>

\* ------------------------------------------------------------- payload
\* A source-map text is the sequence of its code points.  A code point in
\* the surrogate range stands for an unpaired surrogate code unit.
IsSurrogate(cp) == cp >= 55296 /\ cp <= 57343

\* encodeURIComponent throws a URIError on an unpaired surrogate.
EncodeThrows(text) == \E i \in 1..Len(text) : IsSurrogate(text[i])

\* unescape(encodeURIComponent(ch)): the UTF-8 bytes of one code point.
Utf8Of(cp) ==
  IF cp < 128 THEN <<cp>>
  ELSE IF cp < 2048 THEN <<192 + (cp \div 64), 128 + (cp % 64)>>
  ELSE IF cp < 65536
  THEN <<224 + (cp \div 4096), 128 + ((cp \div 64) % 64), 128 + (cp % 64)>>
  ELSE <<240 + (cp \div 262144), 128 + ((cp \div 4096) % 64),
         128 + ((cp \div 64) % 64), 128 + (cp % 64)>>

\* A conversion that takes each character for one byte.
RawBytes(text) == [i \in 1..Len(text) |-> text[i] % 256]

\* unescape(encodeURIComponent(text)), line 226.
RECURSIVE Utf8Bytes(_)
Utf8Bytes(text) ==
  IF text = <<>> THEN <<>> ELSE Utf8Of(Head(text)) \o Utf8Bytes(Tail(text))

\* btoa over a string of bytes: base64 digits 0..63, 64 is the "=" padding.
RECURSIVE Btoa(_)
Btoa(b) ==
  IF b = <<>> THEN <<>>
  ELSE IF Len(b) = 1
       THEN <<b[1] \div 4, (b[1] % 4) * 16, 64, 64>>
  ELSE IF Len(b) = 2
       THEN <<b[1] \div 4, (b[1] % 4) * 16 + (b[2] \div 16), (b[2] % 16) * 4, 64>>
  ELSE <<b[1] \div 4, (b[1] % 4) * 16 + (b[2] \div 16),
         (b[2] % 16) * 4 + (b[3] \div 64), b[3] % 64>>
       \o Btoa(SubSeq(b, 4, Len(b)))

\* Lines 225-232: the argument of attachSourceMapURL.
DataUri(text) ==
  [prefix |-> "data:application/json;base64,", payload |-> Btoa(Utf8Bytes(text))]

NoPayload == [prefix |-> "", payload |-> <<>>]

\* Lines 223-232 on their own: whether attachSourceMapURL is called for the
\* text read from the archive, and with what.
AttachArgument(text) ==
  IF text = <<>> \/ EncodeThrows(text) THEN [attached |-> FALSE, uri |-> NoPayload]
  ELSE [attached |-> TRUE, uri |-> DataUri(text)]

\* What the receiver of the data URI does with the payload: base64 digits
\* back to bytes ...
RECURSIVE Atob(_)
Atob(d) ==
  IF Len(d) < 4 THEN <<>>
  ELSE LET first == d[1] * 4 + (d[2] \div 16)
           second == (d[2] % 16) * 16 + (d[3] \div 4)
           third == (d[3] % 4) * 64 + d[4]
       IN IF d[3] = 64 THEN <<first>>
          ELSE IF d[4] = 64 THEN <<first, second>>
          ELSE <<first, second, third>> \o Atob(SubSeq(d, 5, Len(d)))

\* ... and UTF-8 bytes back to code points, U+FFFD for a byte that starts
\* no well-formed sequence.
Continues(b, n) == Len(b) > n /\ \A i \in 2..(n + 1) : b[i] >= 128 /\ b[i] < 192

RECURSIVE Utf8Decode(_)
Utf8Decode(b) ==
  IF b = <<>> THEN <<>>
  ELSE IF b[1] < 128 THEN <<b[1]>> \o Utf8Decode(Tail(b))
  ELSE IF b[1] >= 192 /\ b[1] < 224 /\ Continues(b, 1)
       THEN <<(b[1] - 192) * 64 + (b[2] - 128)>> \o Utf8Decode(SubSeq(b, 3, Len(b)))
  ELSE IF b[1] >= 224 /\ b[1] < 240 /\ Continues(b, 2)
       THEN <<(b[1] - 224) * 4096 + (b[2] - 128) * 64 + (b[3] - 128)>>
            \o Utf8Decode(SubSeq(b, 4, Len(b)))
  ELSE IF b[1] >= 240 /\ b[1] < 248 /\ Continues(b, 3)
       THEN <<(b[1] - 240) * 262144 + (b[2] - 128) * 4096 + (b[3] - 128) * 64
              + (b[4] - 128)>> \o Utf8Decode(SubSeq(b, 5, Len(b)))
  ELSE <<65533>> \o Utf8Decode(Tail(b))

\* ------------------------------------------------------------- archives
\* An opened archive: its manifest.json (missing, unparsable, or parsed to
\* the ordered entries of manifest.files) and the text of its entries.
ManifestEntry(path, type, debugId) == [path |-> path, type |-> type, debugId |-> debugId]

\* A search that takes the first source map whatever its debug id.
FindSourcemapPathAnyId(files, debugId) ==
  LET hits == SelectSeq(files, LAMBDA e : e.type = "source_map")
  IN IF hits = <<>> THEN "" ELSE hits[1].path

\* Lines 208-212: the path of the first entry that is a source map of this
\* debug id, "" when there is none.
FindSourcemapPath(files, debugId) ==
  LET hits == SelectSeq(files, LAMBDA e : e.type = "source_map" /\ e.debugId = debugId)
  IN IF hits = <<>> THEN "" ELSE hits[1].path

\* zip.file(path)?.async("string"): the entry's text, <<>> for an entry that
\* is not in the archive or is empty.
ReadEntry(archive, path) ==
  IF path \in DOMAIN archive.contents THEN archive.contents[path] ELSE <<>>

\* ------------------------------------------------------------- inputs
\* The values the collaborators hand to the engine in the checked runs.
DebugIds == {"d1", "d2", "d3"}

\* Stored configs: one whose pattern does not compile, one with a wildcard,
\* and one of another project with a literal pattern.
Cfg0 == Cfg("o0", "p0", <<"(">>)
Cfg1 == Cfg("o", "p", <<"a", "*">>)
Cfg2 == Cfg("o2", "p2", <<"a", "b">>)

\* chrome.storage.sync: the token (never written, empty, or set) and the list.
StoredSettings ==
  {[sentryAuthToken |-> t, projectConfigs |-> c] :
     t \in {Undefined, "sntryu_A"}, c \in {<<>>, <<Cfg0, Cfg1, Cfg2>>}}

\* chrome.tabs.get: no tab, a tab without url, a tab on a page.
TabResults ==
  {[tab |-> FALSE, url |-> <<>>], [tab |-> TRUE, url |-> <<>>],
   [tab |-> TRUE, url |-> <<"a", "b">>], [tab |-> TRUE, url |-> <<"b">>]}

Resource(url, type, buildId, content) ==
  [url |-> url, type |-> type, buildId |-> buildId, content |-> content]

Resources ==
  {Resource("r1", "script", "d1", Text("d2", Undefined)),
   Resource("r2", "script", Undefined, Text("d2", "d1")),
   Resource("r3", "script", Undefined, Text(Undefined, "d3")),
   Resource("r4", "script", Undefined, NoContent),
   Resource("r5", "document", "d1", NoContent),
   Resource("r6", "script", Undefined, Text(Undefined, Undefined)),
   Resource("r7", "script", "", Text("d1", Undefined))}

\* Bundle URLs as the lookup returns them.
CanonUrl(path) == Url("https:", "sentry.io", "", path)
InternalUrl(path) == Url("http:", "internal", "8080", path)
BucketUrl(path) == Url("s3:", "bucket", "", path)

BundlePaths == {"/b1", "/b2", "/b3", "/b4"}

RemoteLists ==
  {<<>>, <<CanonUrl("/b1")>>, <<InternalUrl("/b1")>>, <<BucketUrl("/b1")>>,
   <<CanonUrl("/b2"), CanonUrl("/b1")>>, <<CanonUrl("/b3")>>, <<CanonUrl("/b4")>>}

Unparsable == [tag |-> "unparsable", items |-> <<>>]

\* What fetch(lookupUrl) settles to: a rejection, or a response with its
\* status and what response.json() makes of its body.
NetworkError == [kind |-> "reject", ok |-> FALSE, body |-> JsUndefined]
Response(ok, body) == [kind |-> "response", ok |-> ok, body |-> body]

LookupResponses ==
  {NetworkError, Response(FALSE, JsObject), Response(FALSE, Unparsable),
   Response(TRUE, Unparsable), Response(TRUE, JsNull)}
  \cup {Response(TRUE, JsArray(l)) : l \in RemoteLists}

\* What fetch(zipUrl) settles to: fetch rejects a URL that is not http(s);
\* a response carries an archive or something JSZip cannot open.
ZipResponses(url) ==
  IF url.protocol \in {"http:", "https:"}
  THEN {NetworkError, Response(TRUE, [tag |-> "zip", items |-> <<url.pathname>>]),
        Response(FALSE, [tag |-> "notzip", items |-> <<>>])}
  ELSE {NetworkError}

\* The archives the remote serves, by path.
RemoteArchive(path) ==
  CASE path = "/b1" ->
         [manifest |-> "ok",
          files |-> <<ManifestEntry("a.js", "minified_source", "d1"),
                      ManifestEntry("a.map", "source_map", "d1"),
                      ManifestEntry("b.map", "source_map", "d2")>>,
          contents |-> [f \in {"a.js", "a.map", "b.map"} |->
                          CASE f = "a.js" -> <<97>>
                            [] f = "a.map" -> <<123, 125>>
                            [] OTHER -> <<123, 233, 125>>]]
    [] path = "/b2" ->
         [manifest |-> "missing", files |-> <<>>, contents |-> <<>>]
    [] path = "/b3" ->
         [manifest |-> "ok",
          files |-> <<ManifestEntry("c.map", "source_map", "d3"),
                      ManifestEntry("e.map", "source_map", "d1"),
                      ManifestEntry("s.map", "source_map", "d2")>>,
          contents |-> [f \in {"e.map", "s.map"} |->
                          IF f = "e.map" THEN <<>> ELSE <<55296>>]]
    [] OTHER ->
         [manifest |-> "unparsable", files |-> <<>>, contents |-> <<>>]

\* The JSZip object JSZip.loadAsync makes of a downloaded archive.
JsZip(path) == [tag |-> "zip", items |-> <<path>>]
ArchiveOf(zip) == RemoteArchive(zip.items[1])

\* Every key the two caches can hold in the checked runs.
AllLookupKeys ==
  {LookupUrl(c.organization, c.project, d) : c \in {Cfg0, Cfg1, Cfg2}, d \in DebugIds}
AllZipKeys ==
  {UrlToString(NormalizeBundleUrl(u)) : u \in UNION {Range(l) : l \in RemoteLists}}
\* ------------------------------------------------------------- state
VARIABLES
  zipCache,       \* the Map of zipCache (line 30), in insertion order
  artifactCache,  \* the Map of artifactCache (line 31), in insertion order
  stored,         \* chrome.storage.sync: what the settings collaborator holds
  cfgObj,         \* the config objects loadConfig made: 0 is the one of line 46,
                  \* p the one made by the pipeline in slot p
  configRef,      \* which of them the global variable config refers to
  proc,           \* per pipeline slot: where processResource stands, its locals
  events,         \* resource-added events delivered so far
  attachLog,      \* the attachSourceMapURL calls made, in order
  zipLoads,       \* history: per bundle key, the archives unpacked and inserted
                  \* since the key last left zipCache
  zipRace,        \* history: per bundle key, whether a pipeline missed on it
                  \* while another one was downloading it
  lookupDone,     \* history: per lookup key, the lookup result last parsed
                  \* since the key last left artifactCache
  lookupEnded,    \* history: per lookup key, whether a pipeline with this lookup
                  \* URL ended since artifactCache last lost an entry
  recency,        \* harness history: the keys present, least recently accessed
                  \* (set, or returned by get) first
  insertOrder,    \* harness history: the keys present, least recently set first
  lastOp,         \* harness history: the latest direct call and what it did
  call,           \* a function called on its own: its name and arguments
  result          \* ... and whether it returned, and what

direct == <<call, result>>
harness == <<recency, insertOrder, lastOp, direct>>

vars == <<zipCache, artifactCache, stored, cfgObj, configRef, proc, events,
          attachLog, zipLoads, zipRace, lookupDone, lookupEnded, harness>>

NoKey == <<>>
NoOp == [n |-> 0, op |-> "", key |-> NoKey, hit |-> FALSE, evicted |-> {},
         oldest |-> NoKey, prev |-> ""]
NoUrl == Url("", "", "", "")
NoResource == Resource("", "", Undefined, NoContent)

\* The locals of a processResource call that has not run yet.
Fresh ==
  [pc |-> "idle", outcome |-> "", resource |-> NoResource, tabUrl |-> <<>>,
   token |-> Undefined, matching |-> <<>>, buildId |-> Undefined,
   lookupUrl |-> NoKey, lookupVia |-> "none", resp |-> NetworkError,
   bundles |-> JsUndefined, rawUrl |-> NoUrl, zipUrl |-> NoUrl,
   zipKey |-> NoKey, zipVia |-> "none", zip |-> JsUndefined,
   mapPath |-> "", payload |-> NoPayload, after |-> {}]

\* No function is called on its own.
NoCall == [fn |-> ""]
NoResult == [done |-> FALSE]

\* The module as loaded: lines 30-31 and 46-49.
Loaded ==
  /\ zipCache = NewLRUCache(MaxSize)
  /\ artifactCache = NewLRUCache(MaxSize)
  /\ stored \in StoredSettings
  /\ cfgObj = [i \in {0} \cup Procs |-> [sentryAuthToken |-> Null, projectConfigs |-> <<>>]]
  /\ configRef = 0
  /\ proc = [p \in Procs |-> Fresh]
  /\ events = 0
  /\ attachLog = <<>>
  /\ zipLoads = [k \in AllZipKeys |-> 0]
  /\ zipRace = [k \in AllZipKeys |-> FALSE]
  /\ lookupDone = [k \in AllLookupKeys |-> JsUndefined]
  /\ lookupEnded = [k \in AllLookupKeys |-> FALSE]
  /\ recency = <<>>
  /\ insertOrder = <<>>
  /\ lastOp = NoOp

Init == Loaded /\ call = NoCall /\ result = NoResult

\* Where a pipeline waits for its bundle download.
ZipWindow == {"zipFetch", "zipBlob", "zipLoad"}

\* The catch of lines 233-235 logs and returns.
CatchOutcome == "caught"

\* A call that returned keeps no locals; how it ended, and what it got from
\* the lookup, are kept for the record.
Returned(l) ==
  [Fresh EXCEPT !.pc = "done", !.outcome = l.outcome, !.lookupUrl = l.lookupUrl,
                !.lookupVia = l.lookupVia, !.bundles = l.bundles]

\* One stretch of a pipeline, from a resumption to the next await or return:
\* the locals l it leaves and the caches ac and zc it leaves.  The history
\* variables follow what the stretch did.
Commit(p, l, ac, zc) ==
  LET old == proc[p]
      lostA == Keys(artifactCache) \ Keys(ac)
      lostZ == Keys(zipCache) \ Keys(zc)
      unpacked == old.pc = "zipLoad" /\ l.pc = "manifest"
      missed == old.pc \notin ZipWindow /\ l.pc = "zipFetch"
      parsed == /\ old.pc = "lookupJson" /\ l.pc # "lookupJson"
                /\ old.resp.body.tag # "unparsable"
      waiting(k) == {q \in Procs :
                       LET x == IF q = p THEN l ELSE proc[q]
                       IN x.pc \in ZipWindow /\ x.zipKey = k}
      ended == old.pc # "done" /\ l.pc = "done" /\ l.lookupUrl # NoKey
      kept(x) == IF lostA = {} THEN x ELSE [x EXCEPT !.after = {}]
  IN /\ proc' = [q \in Procs |->
                   IF q # p THEN kept(proc[q])
                   ELSE IF l.pc = "done" THEN Returned(l) ELSE kept(l)]
     /\ artifactCache' = ac
     /\ zipCache' = zc
     /\ zipLoads' = [k \in AllZipKeys |->
                       IF k \in lostZ THEN 0
                       ELSE IF unpacked /\ k = l.zipKey THEN zipLoads[k] + 1
                       ELSE zipLoads[k]]
     /\ zipRace' = [k \in AllZipKeys |->
                      IF k \in lostZ THEN Cardinality(waiting(k)) > 1
                      ELSE IF /\ missed
                              /\ k = l.zipKey
                              /\ \E q \in Procs \ {p} :
                                   proc[q].pc \in ZipWindow /\ proc[q].zipKey = k
                      THEN TRUE
                      ELSE zipRace[k]]
     /\ lookupDone' = [k \in AllLookupKeys |->
                         IF k \in lostA THEN JsUndefined
                         ELSE IF parsed /\ k = old.lookupUrl THEN old.resp.body
                         ELSE lookupDone[k]]
     /\ lookupEnded' = [k \in AllLookupKeys |->
                          IF lostA # {} THEN FALSE
                          ELSE IF ended /\ k = l.lookupUrl THEN TRUE
                          ELSE lookupEnded[k]]

\* A return (or the catch) ends the call.
Finish(p, l, outcome, ac, zc) ==
  Commit(p, [l EXCEPT !.pc = "done", !.outcome = outcome], ac, zc)

\* A return that empties both caches on its way out.
EarlyReturnClears(p, l, outcome) ==
  Finish(p, l, outcome, LRUClear(artifactCache), LRUClear(zipCache))

\* A return at a decision point that precedes the lookup (lines 98-151).
EarlyReturn(p, l, outcome) == Finish(p, l, outcome, artifactCache, zipCache)

\* A token check that lets every configuration through.
TokenMissingNever(cfg) == FALSE

\* Line 103: !currentConfig.sentryAuthToken
TokenMissing(cfg) == FalsyStr(cfg.sentryAuthToken)

\* A choice of the last bundle of the lookup result.
BundleInfoLast(val) == val.items[Len(val.items)]

\* Line 172: artifactBundlesWithDebugID[0], of a result that has one.
BundleInfo(val) == val.items[1]

\* Lines 172-189: the first bundle of the lookup result, its normalized URL,
\* and the read of zipCache.  val is the lookup result in use, ac the lookup
\* cache as the lookup left it.
AfterLookup(p, l, val, ac) ==
  IF Falsy(val) THEN Finish(p, l, CatchOutcome, ac, zipCache)
  ELSE IF val.tag # "array" \/ val.items = <<>>
  THEN Finish(p, l, "noBundle", ac, zipCache)
  ELSE LET raw == BundleInfo(val)
           zipUrl == NormalizeBundleUrl(raw)
           key == UrlToString(zipUrl)
           zip == LRUGet(zipCache, key)
           zc == LRUTouch(zipCache, key)
           l2 == [l EXCEPT !.rawUrl = raw, !.zipUrl = zipUrl, !.zipKey = key]
       IN IF Falsy(zip)
          THEN Commit(p, [l2 EXCEPT !.pc = "zipFetch", !.zipVia = "net"], ac, zc)
          ELSE Commit(p, [l2 EXCEPT !.pc = "manifest", !.zipVia = "cache",
                                    !.zip = zip], ac, zc)

\* A test that also takes an empty buildId for an absent one.
NativeIdAbsentOrEmpty(res) == FalsyStr(res.buildId)

\* Line 120: the left side of ?? is undefined or null.
NativeIdAbsent(res) == res.buildId \in {Undefined, Null}

\* A pipeline that acts on the last matching config.
ChosenConfigLast(matching) == matching[Len(matching)]

\* Line 154: matchingConfigs[0]
ChosenConfig(matching) == matching[1]

\* A cache key that carries the token of the request.
CacheKeyWithToken(lookupUrl, token) == Append(lookupUrl, token)

\* Line 162: cacheKeyLookup = lookupUrl.toString(); the headers are no part
\* of it.
CacheKeyLookup(lookupUrl, token) == lookupUrl

\* Lines 149-170: the debug id is known (or not); the lookup URL, the
\* request headers and the read of artifactCache.  cfg is currentConfig.
AfterBuildId(p, l, id, cfg) ==
  IF FalsyStr(id) THEN EarlyReturn(p, l, "noDebugId")
  ELSE LET key == LookupUrl(ChosenConfig(l.matching).organization,
                            ChosenConfig(l.matching).project, id)
           val == LRUGet(artifactCache, CacheKeyLookup(key, cfg.sentryAuthToken))
           ac == LRUTouch(artifactCache, CacheKeyLookup(key, cfg.sentryAuthToken))
           l2 == [l EXCEPT !.buildId = id, !.lookupUrl = key,
                           !.token = cfg.sentryAuthToken]
       IN IF Falsy(val)
          THEN Commit(p, [l2 EXCEPT !.pc = "lookupFetch", !.lookupVia = "net"],
                      ac, zipCache)
          ELSE AfterLookup(p, [l2 EXCEPT !.lookupVia = "cache", !.bundles = val],
                           val, ac)
\* ------------------------------------------------------------- actions
\* A resource-added event (line 242), or one resource of the initial
\* getResources sweep (lines 238-240, which starts its calls one after the
\* other): processResource runs up to the await of chrome.tabs.get.  A
\* slot is only the name of a call: a new call takes the lowest free one.
Start(p, res) ==
  /\ proc[p].pc \in {"idle", "done"}
  /\ \A q \in Procs : q < p => proc[q].pc \notin {"idle", "done"}
  /\ events < MaxEvents
  /\ events' = events + 1
  /\ Commit(p, [Fresh EXCEPT !.pc = "tab", !.resource = res,
                              !.after = {k \in AllLookupKeys : lookupEnded[k]}],
            artifactCache, zipCache)
  /\ UNCHANGED <<harness, stored, cfgObj, configRef, attachLog>>

\* Lines 96-102: the tab arrives; loadConfig is called.
TabReturns(p, tab) ==
  /\ proc[p].pc = "tab"
  /\ IF ~tab.tab \/ tab.url = <<>>
     THEN EarlyReturn(p, proc[p], "noTab")
     ELSE Commit(p, [proc[p] EXCEPT !.pc = "config", !.tabUrl = tab.url],
                 artifactCache, zipCache)
  /\ UNCHANGED <<harness, stored, cfgObj, configRef, events, attachLog>>

\* A call that looks at the resource type before the token.
ConfigLoadedTypeFirst(p) ==
  /\ proc[p].pc = "config"
  /\ LET cfg == LoadedConfig(stored)
         l == proc[p]
         matching == FindMatchingConfigs(cfg.projectConfigs, l.tabUrl)
         l2 == [l EXCEPT !.token = cfg.sentryAuthToken]
         l3 == [l2 EXCEPT !.matching = matching]
     IN /\ cfgObj' = [cfgObj EXCEPT ![p] = cfg]
        /\ configRef' = p
        /\ IF l.resource.type # "script"
           THEN EarlyReturn(p, l2, "notScript")
           ELSE IF TokenMissing(cfg)
           THEN EarlyReturn(p, l2, "noToken")
           ELSE IF matching = <<>>
           THEN EarlyReturn(p, l3, "noConfig")
           ELSE IF ~NativeIdAbsent(l.resource)
           THEN AfterBuildId(p, l3, l.resource.buildId, cfg)
           ELSE Commit(p, [l3 EXCEPT !.pc = "content"], artifactCache, zipCache)
  /\ UNCHANGED <<harness, stored, events, attachLog>>

\* Lines 54-60 and 102-151: the storage callback replaces the global config
\* and resolves with it; the call goes on to the token, the resource type,
\* the matching configs and the native build id.
ConfigLoaded(p) ==
  /\ proc[p].pc = "config"
  /\ LET cfg == LoadedConfig(stored)
         l == proc[p]
         matching == FindMatchingConfigs(cfg.projectConfigs, l.tabUrl)
         l2 == [l EXCEPT !.token = cfg.sentryAuthToken]
         l3 == [l2 EXCEPT !.matching = matching]
     IN /\ cfgObj' = [cfgObj EXCEPT ![p] = cfg]
        /\ configRef' = p
        /\ IF TokenMissing(cfg)
           THEN EarlyReturn(p, l2, "noToken")
           ELSE IF l.resource.type # "script"
           THEN EarlyReturn(p, l2, "notScript")
           ELSE IF matching = <<>>
           THEN EarlyReturn(p, l3, "noConfig")
           ELSE IF ~NativeIdAbsent(l.resource)
           THEN AfterBuildId(p, l3, l.resource.buildId, cfg)
           ELSE Commit(p, [l3 EXCEPT !.pc = "content"], artifactCache, zipCache)
  /\ UNCHANGED <<harness, stored, events, attachLog>>

\* Lines 122-151: the getContent callback resolves the debug id.
ContentReturns(p) ==
  /\ proc[p].pc = "content"
  /\ AfterBuildId(p, proc[p], ExtractDebugId(proc[p].resource.content), cfgObj[p])
  /\ UNCHANGED <<harness, stored, cfgObj, configRef, events, attachLog>>

\* Line 165: fetch(lookupUrl) settles.
LookupFetchReturns(p, resp) ==
  /\ proc[p].pc = "lookupFetch"
  /\ IF resp.kind = "reject"
     THEN Finish(p, proc[p], CatchOutcome, artifactCache, zipCache)
     ELSE Commit(p, [proc[p] EXCEPT !.pc = "lookupJson", !.resp = resp],
                 artifactCache, zipCache)
  /\ UNCHANGED <<harness, stored, cfgObj, configRef, events, attachLog>>

\* Lines 166-189: response.json() settles; the result is cached and used.
LookupJsonReturns(p) ==
  /\ proc[p].pc = "lookupJson"
  /\ LET l == proc[p]
         body == l.resp.body
     IN IF body.tag = "unparsable"
        THEN Finish(p, l, CatchOutcome, artifactCache, zipCache)
        ELSE AfterLookup(p, [l EXCEPT !.bundles = body, !.resp = NetworkError], body,
                         LRUSet(artifactCache, CacheKeyLookup(l.lookupUrl, l.token),
                                body))
  /\ UNCHANGED <<harness, stored, cfgObj, configRef, events, attachLog>>

\* Line 185: fetch(zipUrl) settles.
ZipFetchReturns(p, resp) ==
  /\ proc[p].pc = "zipFetch"
  /\ IF resp.kind = "reject"
     THEN Finish(p, proc[p], CatchOutcome, artifactCache, zipCache)
     ELSE Commit(p, [proc[p] EXCEPT !.pc = "zipBlob", !.resp = resp],
                 artifactCache, zipCache)
  /\ UNCHANGED <<harness, stored, cfgObj, configRef, events, attachLog>>

\* Line 186: the body arrives as a blob.
ZipBlobReturns(p) ==
  /\ proc[p].pc = "zipBlob"
  /\ Commit(p, [proc[p] EXCEPT !.pc = "zipLoad"], artifactCache, zipCache)
  /\ UNCHANGED <<harness, stored, cfgObj, configRef, events, attachLog>>

\* Lines 187-193: JSZip.loadAsync settles; the archive is cached and its
\* manifest.json is asked for.
ZipLoadReturns(p) ==
  /\ proc[p].pc = "zipLoad"
  /\ LET l == proc[p]
     IN IF l.resp.body.tag # "zip"
        THEN Finish(p, l, CatchOutcome, artifactCache, zipCache)
        ELSE LET zip == JsZip(l.resp.body.items[1])
             IN Commit(p, [l EXCEPT !.pc = "manifest", !.zip = zip,
                                    !.resp = NetworkError],
                       artifactCache, LRUSet(zipCache, l.zipKey, zip))
  /\ UNCHANGED <<harness, stored, cfgObj, configRef, events, attachLog>>

\* Lines 191-220: the manifest text arrives, is parsed and searched; the
\* entry of the source map is asked for.
ManifestRead(p) ==
  /\ proc[p].pc = "manifest"
  /\ LET l == proc[p]
         archive == ArchiveOf(l.zip)
         path == FindSourcemapPath(archive.files, l.buildId)
     IN IF archive.manifest = "missing"
        THEN Finish(p, l, "noManifest", artifactCache, zipCache)
        ELSE IF archive.manifest = "unparsable"
        THEN Finish(p, l, "badManifest", artifactCache, zipCache)
        ELSE IF path = ""
        THEN Finish(p, l, "noMap", artifactCache, zipCache)
        ELSE Commit(p, [l EXCEPT !.pc = "mapRead", !.mapPath = path],
                    artifactCache, zipCache)
  /\ UNCHANGED <<harness, stored, cfgObj, configRef, events, attachLog>>

\* Lines 218-232: the source map's text arrives, is encoded and attached.
MapRead(p) ==
  /\ proc[p].pc = "mapRead"
  /\ LET l == proc[p]
         text == ReadEntry(ArchiveOf(l.zip), l.mapPath)
     IN IF text = <<>>
        THEN /\ Finish(p, l, "noContent", artifactCache, zipCache)
             /\ UNCHANGED attachLog
        ELSE IF EncodeThrows(text)
        THEN /\ Finish(p, l, CatchOutcome, artifactCache, zipCache)
             /\ UNCHANGED attachLog
        ELSE /\ Finish(p, [l EXCEPT !.payload = DataUri(text)], "attached",
                       artifactCache, zipCache)
             /\ attachLog' = Append(attachLog, [resource |-> l.resource.url,
                                                payload |-> DataUri(text)])
  /\ UNCHANGED <<harness, stored, cfgObj, configRef, events>>

\* An unload listener that clears the bundle cache only.
UnloadZipOnly ==
  /\ Size(zipCache) > 0 \/ Size(artifactCache) > 0
  /\ Commit(1, proc[1], artifactCache, LRUClear(zipCache))
  /\ UNCHANGED <<harness, stored, cfgObj, configRef, events, attachLog>>

\* Lines 244-247: the unload listener.
Unload ==
  /\ Size(zipCache) > 0 \/ Size(artifactCache) > 0
  /\ Commit(1, proc[1], LRUClear(artifactCache), LRUClear(zipCache))
  /\ UNCHANGED <<harness, stored, cfgObj, configRef, events, attachLog>>

Next ==
  \/ \E p \in Procs, res \in Resources : Start(p, res)
  \/ \E p \in Procs, tab \in TabResults : TabReturns(p, tab)
  \/ \E p \in Procs : ConfigLoaded(p)
  \/ \E p \in Procs : ContentReturns(p)
  \/ \E p \in Procs, resp \in LookupResponses : LookupFetchReturns(p, resp)
  \/ \E p \in Procs : LookupJsonReturns(p)
  \/ \E p \in Procs : \E resp \in ZipResponses(proc[p].zipUrl) : ZipFetchReturns(p, resp)
  \/ \E p \in Procs : ZipBlobReturns(p)
  \/ \E p \in Procs : ZipLoadReturns(p)
  \/ \E p \in Procs : ManifestRead(p)
  \/ \E p \in Procs : MapRead(p)
  \/ Unload

Spec == Init /\ [][Next]_vars
\* ------------------------------------------------------------- LRUCache harness
\* The class on its own: an instance of some capacity takes get, set and
\* clear calls with any key and value, as the calls of the pipelines reach
\* it one at a time.
HarnessKeys == {LookupUrl("o", "p", d) : d \in {"d1", "d2", "d3", "d4"}}
HarnessValues == {JsArray(<<>>), JsArray(<<CanonUrl("/b1")>>), JsNull}

\* The order of last access kept apart from the Map: key becomes the most
\* recent one; keys that are gone are dropped.
Accessed(order, key, present) ==
  SelectSeq(SelectSeq(order, LAMBDA k : k # key) \o <<key>>, LAMBDA k : k \in present)

\* The key whose last set lies furthest back, before the call at hand.
OldestSet == IF insertOrder = <<>> THEN NoKey ELSE Head(insertOrder)

pipelineVars == <<zipCache, stored, cfgObj, configRef, proc, events, attachLog,
                  zipLoads, zipRace, lookupDone, lookupEnded, direct>>

HarnessInit ==
  /\ Init
  /\ stored.sentryAuthToken = Undefined /\ stored.projectConfigs = <<>>

HarnessNew(n) ==
  /\ lastOp.n = 0 /\ lastOp.op = ""
  /\ artifactCache' = NewLRUCache(n)
  /\ lastOp' = [NoOp EXCEPT !.op = "new"]
  /\ UNCHANGED <<pipelineVars, recency, insertOrder>>

HarnessGet(key) ==
  /\ lastOp.op # "" /\ lastOp.n < MaxOps
  /\ LET hit == ~Falsy(LRUGet(artifactCache, key))
     IN /\ artifactCache' = LRUTouch(artifactCache, key)
        /\ recency' = IF hit THEN Accessed(recency, key, Keys(artifactCache))
                      ELSE recency
        /\ lastOp' = [n |-> lastOp.n + 1, op |-> "get", key |-> key, hit |-> hit,
                      evicted |-> {}, oldest |-> OldestSet, prev |-> lastOp.op]
  /\ UNCHANGED <<pipelineVars, insertOrder>>

HarnessSet(key, val) ==
  /\ lastOp.op # "" /\ lastOp.n < MaxOps
  /\ artifactCache' = LRUSet(artifactCache, key, val)
  /\ recency' = Accessed(recency, key, Keys(artifactCache'))
  /\ insertOrder' = Accessed(insertOrder, key, Keys(artifactCache'))
  /\ lastOp' = [n |-> lastOp.n + 1, op |-> "set", key |-> key, hit |-> FALSE,
                evicted |-> Keys(artifactCache) \ Keys(artifactCache'),
                oldest |-> OldestSet, prev |-> lastOp.op]
  /\ UNCHANGED pipelineVars

HarnessClear ==
  /\ lastOp.op # "" /\ lastOp.n < MaxOps
  /\ artifactCache' = LRUClear(artifactCache)
  /\ recency' = <<>>
  /\ insertOrder' = <<>>
  /\ lastOp' = [n |-> lastOp.n + 1, op |-> "clear", key |-> NoKey, hit |-> FALSE,
                evicted |-> Keys(artifactCache), oldest |-> OldestSet,
                prev |-> lastOp.op]
  /\ UNCHANGED pipelineVars

HarnessNext ==
  \/ \E n \in 2..HarnessMaxSize : HarnessNew(n)
  \/ \E key \in HarnessKeys : HarnessGet(key)
  \/ \E key \in HarnessKeys, val \in HarnessValues : HarnessSet(key, val)
  \/ HarnessClear

SpecLRU == HarnessInit /\ [][HarnessNext]_vars
\* ------------------------------------------------------------- C5
\* A set of a key the cache does not hold, into a cache that is full.
InsertsIntoFull ==
  /\ lastOp'.n # lastOp.n
  /\ lastOp'.op = "set"
  /\ lastOp'.key \notin Keys(artifactCache)
  /\ Size(artifactCache) = artifactCache.maxSize

\* C5: in a full cache, the insertion of one more distinct key removes
\* exactly the least recently accessed key, where a set and a get hit count
\* as an access, and no other key; a key that a get returned just before
\* that insertion is not the one removed.
C5_EvictsLeastRecentlyAccessed ==
  [][InsertsIntoFull =>
       /\ recency # <<>>
       /\ Keys(artifactCache') =
            (Keys(artifactCache) \ {recency[1]}) \cup {lastOp'.key}
       /\ (lastOp.op = "get" /\ lastOp.hit) => lastOp.key \in Keys(artifactCache')]_vars

\* C5 witness: an insertion into a full cache removed a key, and the key
\* whose set lay furthest back stayed, a get having returned it just before.
C5_ReadKeySurvived ==
  /\ lastOp.op = "set" /\ lastOp.prev = "get"
  /\ lastOp.evicted # {}
  /\ lastOp.oldest # NoKey
  /\ lastOp.oldest \notin lastOp.evicted
  /\ lastOp.oldest \in Keys(artifactCache)
\* ------------------------------------------------------------- C6
\* Neither cache holds more entries than its capacity.
SizeBound ==
  /\ artifactCache.maxSize = MaxSize /\ Size(artifactCache) <= MaxSize
  /\ zipCache.maxSize = MaxSize /\ Size(zipCache) <= MaxSize

\* What may happen to the entries of cache c in a step that leaves it as d:
\* all go (clear), or the front entry goes as a new key enters the full
\* cache (eviction), or a value changes under its key, which then is the
\* last one (overwrite).
LeavesOnlyAsAllowed(c, d) ==
  /\ \A k \in Keys(c) \ Keys(d) :
        \/ Size(d) = 0 /\ Size(artifactCache') = 0 /\ Size(zipCache') = 0
        \/ /\ Size(c) = c.maxSize
           /\ k = c.cache[1].k
           /\ Keys(d) \ Keys(c) = {d.cache[Len(d.cache)].k}
           /\ Keys(c) \ Keys(d) = {k}
  /\ \A k \in Keys(c) \cap Keys(d) :
        MapGet(d.cache, k) # MapGet(c.cache, k) => d.cache[Len(d.cache)].k = k

\* C6: whatever the pipelines do in whatever order, each of the two caches
\* holds at most its capacity of entries, and an entry leaves a cache only
\* by eviction from the full cache, by being overwritten under its key, or
\* by the clear of both caches.
C6_BoundedAndNoExpiry ==
  /\ []SizeBound
  /\ [][/\ LeavesOnlyAsAllowed(artifactCache, artifactCache')
        /\ LeavesOnlyAsAllowed(zipCache, zipCache')]_vars

\* C6 witness: a full cache took a new key and lost the one at its front.
C6_Evicted ==
  \E p \in Procs :
    /\ proc[p].zipVia = "net" /\ proc[p].pc = "manifest"
    /\ Size(zipCache) = MaxSize
    /\ Keys(zipCache) = {proc[p].zipKey}
    /\ \E k \in AllZipKeys \ {proc[p].zipKey} : zipLoads[k] = 0 /\ \E q \in Procs \ {p} : proc[q].zipKey = k /\ proc[q].pc \in {"manifest", "mapRead"}
\* ------------------------------------------------------------- C1
\* C1 (as amended): with no eviction and no clear in between, a bundle whose
\* archive is in the cache has been downloaded and unpacked, and it has been
\* unpacked exactly once unless a pipeline missed on its URL while the
\* download of another pipeline for the same URL was still in flight.
C1_UnpackedOnceUnlessRaced ==
  \A k \in AllZipKeys :
    /\ MapHas(zipCache.cache, k) => zipLoads[k] >= 1
    /\ ~zipRace[k] => zipLoads[k] <= 1

\* C1 witness: a second pipeline got the archive of the bundle from the
\* cache after the one download, no two downloads having overlapped.
C1_SecondServedFromCache ==
  \E p \in Procs :
    /\ proc[p].zipVia = "cache"
    /\ proc[p].pc \in {"manifest", "mapRead"}
    /\ zipLoads[proc[p].zipKey] = 1
    /\ ~zipRace[proc[p].zipKey]
    /\ events = 2

\* C1 as stated: in any interleaving, no bundle is unpacked twice while no
\* eviction and no clear happens.
C1_UnpackedAtMostOnce == \A k \in AllZipKeys : zipLoads[k] <= 1
\* ------------------------------------------------------------- C2
\* Pipeline q resumes in this step.
Steps(q) == proc'[q].pc # proc[q].pc

\* Pipeline q reads the lookup cache in this step.
ReadsLookup(q) == proc[q].lookupUrl = NoKey /\ proc'[q].lookupUrl # NoKey

\* C2 (as amended): when the lookup result last parsed for a lookup URL is
\* not falsy, and no eviction or clear has come since, a pipeline with the
\* same lookup URL issues no request: it is served from the cache and uses
\* that same result.
C2_SecondLookupFromCache ==
  [][\A q \in Procs :
       (ReadsLookup(q) /\ ~Falsy(lookupDone[proc'[q].lookupUrl])) =>
          /\ proc'[q].lookupVia = "cache"
          /\ proc'[q].pc # "lookupFetch"
          /\ proc'[q].bundles = lookupDone[proc'[q].lookupUrl]]_vars

\* C2 witness: a pipeline started after another with the same lookup URL had
\* finished, and was served that one's result from the cache.
C2_ServedAfterFirstFinished ==
  \E q \in Procs :
    /\ proc[q].lookupUrl \in proc[q].after
    /\ proc[q].lookupVia = "cache"
    /\ proc[q].bundles = lookupDone[proc[q].lookupUrl]
    /\ proc[q].pc \in {"manifest", "mapRead"}

\* C2 as stated: a pipeline that starts after one with the same lookup URL
\* has finished, no eviction or clear having come since, issues no request
\* for that URL.
C2_AtMostOneRequest ==
  [][\A q \in Procs :
       (ReadsLookup(q) /\ proc'[q].lookupUrl \in proc[q].after) =>
          proc'[q].lookupVia = "cache"]_vars
\* ------------------------------------------------------------- C3
\* C3 as stated: when the body of a non-success lookup response has been
\* read, the lookup cache holds no entry for that lookup URL.
C3_NonSuccessNotCached ==
  [][\A p \in Procs :
       (proc[p].pc = "lookupJson" /\ Steps(p) /\ ~proc[p].resp.ok) =>
          ~MapHas(artifactCache'.cache, proc[p].lookupUrl)]_vars
\* ------------------------------------------------------------- C4
\* C4 as stated, for the failures that are not a non-success status: a
\* pipeline that ends on a lookup that was rejected or did not parse leaves
\* the lookup cache as it was, and a pipeline that ends on a bundle whose
\* manifest.json is missing or does not parse, having downloaded the bundle
\* itself and alone, leaves no archive cached for the bundle URL.
C4_FailedAttemptLeavesNothing ==
  [][\A p \in Procs :
       (Steps(p) /\ proc'[p].pc = "done") =>
          /\ (\/ proc[p].pc = "lookupFetch"
              \/ /\ proc[p].pc = "lookupJson"
                 /\ proc[p].resp.ok
                 /\ proc[p].resp.body.tag = "unparsable") =>
                artifactCache' = artifactCache
          /\ (/\ proc'[p].outcome \in {"noManifest", "badManifest"}
              /\ proc[p].zipVia = "net"
              /\ ~zipRace[proc[p].zipKey]) =>
                ~MapHas(zipCache'.cache, proc[p].zipKey)]_vars
\* ------------------------------------------------------------- C7
\* The debug id of a resource: its buildId, else the one in its content.
OwnDebugId(res) ==
  IF res.buildId \notin {Undefined, Null} THEN res.buildId
  ELSE ExtractDebugId(res.content)

\* The entries of the archive's manifest that are source maps of debug id id.
MapsOf(zip, id) ==
  {i \in 1..Len(ArchiveOf(zip).files) :
     /\ ArchiveOf(zip).files[i].type = "source_map"
     /\ ArchiveOf(zip).files[i].debugId = id}

\* Every decision point of the pipeline with locals l answered yes.
AllPassed(l) ==
  /\ l.tabUrl # <<>>
  /\ ~FalsyStr(l.token)
  /\ l.resource.type = "script"
  /\ l.matching # <<>> /\ PatternMatches(l.matching[1].urlPattern, l.tabUrl)
  /\ ~FalsyStr(l.buildId) /\ l.buildId = OwnDebugId(l.resource)
  /\ l.rawUrl # NoUrl
  /\ l.zip.tag = "zip" /\ ArchiveOf(l.zip).manifest = "ok"
  /\ \E i \in MapsOf(l.zip, l.buildId) :
        ReadEntry(ArchiveOf(l.zip), ArchiveOf(l.zip).files[i].path) # <<>>

EarlyOutcomes == {"noTab", "noToken", "notScript", "noConfig", "noDebugId"}

\* C8: a pipeline that ends at a decision point that precedes the lookup has
\* read no cache and issued no request, and the step in which it ends, like
\* every step of it before the lookup, leaves both caches as they were,
\* order included.
C8_EarlyExitLeavesCaches ==
  /\ [](\A p \in Procs :
         (proc[p].pc = "done" /\ proc[p].outcome \in EarlyOutcomes) =>
            proc[p].lookupVia = "none" /\ proc[p].lookupUrl = NoKey)
  /\ [][\A p \in Procs :
         (/\ Steps(p)
          /\ \/ proc'[p].pc \in {"tab", "config", "content"}
             \/ proc'[p].pc = "done" /\ proc'[p].outcome \in EarlyOutcomes) =>
            artifactCache' = artifactCache /\ zipCache' = zipCache]_vars

\* C8 witness: a pipeline ended for want of a debug id while both caches
\* held an entry.
C8_EarlyExitWithFullCaches ==
  /\ Size(artifactCache) > 0 /\ Size(zipCache) > 0
  /\ \E p \in Procs : proc[p].pc = "done" /\ proc[p].outcome = "noDebugId"
\* ------------------------------------------------------------- C9
\* C9: the step in which a pipeline attaches adds exactly one attach call,
\* on the resource of its event, whose payload wraps the content of a
\* manifest entry of type source_map with the debug id of that resource.
C9_AttachesOwnMap ==
  [][\A p \in Procs :
       (Steps(p) /\ proc'[p].outcome = "attached") =>
          /\ Len(attachLog') = Len(attachLog) + 1
          /\ SubSeq(attachLog', 1, Len(attachLog)) = attachLog
          /\ attachLog'[Len(attachLog')].resource = proc[p].resource.url
          /\ \E i \in MapsOf(proc[p].zip, OwnDebugId(proc[p].resource)) :
                attachLog'[Len(attachLog')].payload =
                  DataUri(ReadEntry(ArchiveOf(proc[p].zip),
                                    ArchiveOf(proc[p].zip).files[i].path))]_vars

\* C9 witness: two pipelines with different debug ids were in flight on the
\* one unpacked archive, and each attached its own map to its own resource.
C9_TwoMapsFromOneArchive ==
  /\ Len(attachLog) = 2
  /\ attachLog[1].resource # attachLog[2].resource
  /\ attachLog[1].payload # attachLog[2].payload
  /\ \E k \in AllZipKeys : zipLoads[k] = 1 /\ Keys(zipCache) = {k}
  /\ \A p \in Procs : proc[p].after = {}
\* ------------------------------------------------------------- C10
\* Two bundle URLs that differ at most in host, scheme and port.
SameButOrigin(u, v) == u # NoUrl /\ v # NoUrl /\ u.pathname = v.pathname

moduleVars == <<zipCache, artifactCache, stored, cfgObj, configRef, proc, events,
                attachLog, zipLoads, zipRace, lookupDone, lookupEnded, recency,
                insertOrder, lastOp>>

\* The module as loaded, before any settings were stored.
LoadedBare ==
  /\ Loaded
  /\ stored.sentryAuthToken = Undefined /\ stored.projectConfigs = <<>>

\* The strings of at most n characters out of chars.
Strings(chars, n) == UNION {[1..k -> chars] : k \in 0..n}

\* The called function returns v.
Returns(fn, v) ==
  /\ call.fn = fn
  /\ ~result.done
  /\ result' = [done |-> TRUE, value |-> v]
  /\ UNCHANGED <<moduleVars, call>>
\* ------------------------------------------------------------- pattern matcher on its own
MaxPatternLen == 3
MaxUrlLen == 3
PatternChars == {"a", ".", "?", "*", "("}
UrlChars == {"a", ".", "?"}

\* urlMatchesPattern of the popup: the same conversion and test.
UrlMatchesPattern(url, pattern) ==
  LET src == RegexSource(pattern)
  IN IF RegexCompiles(src) THEN RegexTest(src, url) ELSE FALSE

MatchInit ==
  /\ LoadedBare
  /\ call \in {[fn |-> f, url |-> u, pattern |-> pt] :
                 f \in {"filter", "urlMatchesPattern"},
                 u \in Strings(UrlChars, MaxUrlLen),
                 pt \in Strings(PatternChars, MaxPatternLen)}
  /\ result = NoResult

\* The filter callback of findMatchingConfigs runs on one config.
FilterReturns == Returns("filter", PatternMatches(call.pattern, call.url))

\* urlMatchesPattern runs.
UrlMatchesPatternReturns ==
  Returns("urlMatchesPattern", UrlMatchesPattern(call.url, call.pattern))

MatchNext == FilterReturns \/ UrlMatchesPatternReturns

SpecMatch == MatchInit /\ [][MatchNext]_vars
\* ------------------------------------------------------------- C11
\* C11 as stated: the pattern "*" matches every url, and a pattern without
\* "*" matches a url if and only if the url is equal to it.
C11_WildcardAndExact ==
  result.done =>
    /\ call.pattern = <<"*">> => result.value
    /\ "*" \notin Range(call.pattern) => (result.value <=> call.url = call.pattern)
\* ------------------------------------------------------------- findMatchingConfigs on its own
MaxConfigs == 3
FindPatterns == {<<"(">>, <<"?">>, <<"*">>, <<"a">>, <<"a", "*">>}
FindConfigs == {Cfg("o", pr, pt) : pr \in {"p", "q"}, pt \in FindPatterns}

FindInit ==
  /\ LoadedBare
  /\ call \in {[fn |-> "findMatchingConfigs", url |-> u, configs |-> cs] :
                 u \in Strings({"a", "?"}, MaxUrlLen - 1),
                 cs \in Strings(FindConfigs, MaxConfigs)}
  /\ result = NoResult

\* findMatchingConfigs runs over the list config.projectConfigs holds.
FindReturns ==
  Returns("findMatchingConfigs", FindMatchingConfigs(call.configs, call.url))

SpecFind == FindInit /\ [][FindReturns]_vars
\* ------------------------------------------------------------- C12
\* The pattern of the config does not compile.
Malformed(cfg) == ~RegexCompiles(RegexSource(cfg.urlPattern))

\* C12: findMatchingConfigs returns a list for every config list: no config
\* with a malformed pattern is in it, every config whose pattern compiles
\* and matches the url is in it, as often as in the list, whether or not a
\* malformed one stands before it, and nothing else is in it.
C12_MalformedIsNoMatch ==
  result.done =>
    \A cfg \in FindConfigs :
      LET asked == Len(SelectSeq(call.configs, LAMBDA c : c = cfg))
          got == Len(SelectSeq(result.value, LAMBDA c : c = cfg))
      IN IF Malformed(cfg) THEN got = 0
         ELSE IF RegexTest(RegexSource(cfg.urlPattern), call.url) THEN got = asked
         ELSE got = 0

\* C12 witness: a config behind one with a malformed pattern was returned.
C12_GoodAfterBad ==
  /\ result.done
  /\ Len(call.configs) = 3
  /\ Malformed(call.configs[1])
  /\ Malformed(call.configs[3])
  /\ result.value = <<call.configs[2]>>
\* ------------------------------------------------------------- C13
\* The places in list configs whose pattern matches the page url.
MatchingPlaces(configs, url) ==
  {i \in 1..Len(configs) : UrlMatchesPattern(url, configs[i].urlPattern)}

\* Pipeline p has passed the config match and is still running.
Routed(p) == proc[p].pc \notin {"idle", "tab", "config", "done"}

\* C13: the matching configs of a pipeline are exactly the stored configs
\* whose pattern matches the url of the inspected page, in stored order; the
\* lookup URL is built from the organization and project of the first of
\* them, and stays the same until the pipeline ends, however it ends.
C13_FirstMatchRoutes ==
  /\ [](\A p \in Procs :
         Routed(p) =>
           LET configs == cfgObj[p].projectConfigs
               places == MatchingPlaces(configs, proc[p].tabUrl)
               first == configs[CHOOSE i \in places : \A j \in places : i <= j]
           IN /\ Len(proc[p].matching) = Cardinality(places)
              /\ \A i \in places :
                    proc[p].matching[Cardinality({j \in places : j <= i})] = configs[i]
              /\ proc[p].lookupUrl # NoKey =>
                    proc[p].lookupUrl =
                      LookupUrl(first.organization, first.project, proc[p].buildId))
  /\ [][\A p \in Procs :
         (proc[p].lookupUrl # NoKey /\ proc'[p].pc # "tab") =>
            proc'[p].lookupUrl = proc[p].lookupUrl]_vars

\* C13 witness: two stored configs matched the page, the lookup went to the
\* project of the first, and the pipeline ended there for want of a bundle
\* or of a matching map.
C13_SecondMatchUnused ==
  \E p \in Procs :
    /\ proc[p].pc = "done"
    /\ proc[p].outcome \in {"noBundle", "noMap"}
    /\ proc[p].lookupUrl \in {LookupUrl("o", "p", d) : d \in DebugIds}
    /\ MatchingPlaces(stored.projectConfigs, <<"a", "b">>) = {2, 3}
\* ------------------------------------------------------------- C14
\* The resource of pipeline p carries a native build identifier.
HasNativeId(p) == proc[p].resource.buildId \notin {Undefined, Null}

\* C14: a pipeline whose resource carries a native build identifier never
\* waits for the resource's content, and the debug id of its lookup URL and
\* of the manifest entry it picks is that identifier, whatever the content
\* holds.
C14_NativeIdWins ==
  \A p \in Procs :
    (proc[p].pc \notin {"idle", "done"} /\ HasNativeId(p)) =>
      /\ proc[p].pc # "content"
      /\ proc[p].lookupUrl # NoKey =>
            /\ proc[p].buildId = proc[p].resource.buildId
            /\ proc[p].lookupUrl[6] = proc[p].resource.buildId
      /\ proc[p].pc = "mapRead" =>
            \E i \in MapsOf(proc[p].zip, proc[p].resource.buildId) :
              ArchiveOf(proc[p].zip).files[i].path = proc[p].mapPath

\* C14 witness: a resource with a native identifier and another debug id in
\* its content is about to read the map of the native identifier.
C14_NativeOverContent ==
  \E p \in Procs :
    /\ proc[p].pc = "mapRead"
    /\ HasNativeId(p)
    /\ ExtractDebugId(proc[p].resource.content)
         \notin {Undefined, proc[p].resource.buildId}
    /\ proc[p].lookupUrl[6] = proc[p].resource.buildId
\* ------------------------------------------------------------- C15
\* C15: when the content of a resource without native identifier arrives,
\* the debug id is the uuid of the sentry-dbid marker if there is one, else
\* the token of the //# debugId= line if there is one; the lookup URL is
\* built from it.  With neither, or with no content, the pipeline ends in
\* that step without a lookup.  A pipeline asks for the content only as it
\* leaves the config step, so at most once.
C15_ScanOrder ==
  [][\A p \in Procs :
       /\ (Steps(p) /\ proc'[p].pc = "content") => proc[p].pc = "config"
       /\ (Steps(p) /\ proc[p].pc = "content") =>
            LET c == proc[p].resource.content
            IN IF c.tag = "text" /\ c.dbid # Undefined
               THEN proc'[p].lookupUrl[6] = c.dbid
               ELSE IF c.tag = "text" /\ c.comment # Undefined
               THEN proc'[p].lookupUrl[6] = c.comment
               ELSE /\ proc'[p].pc = "done"
                    /\ proc'[p].outcome = "noDebugId"
                    /\ proc'[p].lookupUrl = NoKey
                    /\ proc'[p].lookupVia = "none"]_vars

\* C15 witness: a content with both markers gave the uuid of sentry-dbid.
C15_MarkerBeforeComment ==
  \E p \in Procs :
    /\ proc[p].pc \notin {"idle", "done"}
    /\ ~HasNativeId(p)
    /\ proc[p].resource.content.dbid # Undefined
    /\ proc[p].resource.content.comment # Undefined
    /\ proc[p].resource.content.comment # proc[p].resource.content.dbid
    /\ proc[p].lookupUrl # NoKey
    /\ proc[p].lookupUrl[6] = proc[p].resource.content.dbid
\* ------------------------------------------------------------- C16
\* C16, its last part, as stated: failures of earlier pipelines leave the
\* engine able to resolve later events correctly, so a pipeline that takes
\* its lookup result from the cache takes one that a lookup response with a
\* success status carried.
C16_LaterEventsResolved ==
  \A p \in Procs :
    proc[p].lookupVia = "cache" =>
      \E r \in LookupResponses : r.kind = "response" /\ r.ok /\ r.body = proc[p].bundles
\* ------------------------------------------------------------- C17
\* A step of the unload listener: a cache changes while no pipeline moves.
Signal ==
  /\ \A q \in Procs : ~Steps(q)
  /\ zipCache' # zipCache \/ artifactCache' # artifactCache

\* A pipeline reads zipCache (line 183).
ReadsZip(q) == proc[q].zipKey = NoKey /\ proc'[q].zipKey # NoKey

\* C17: the unload signal leaves both caches without any entry in its one
\* step, whatever they held, and a pipeline that reads an empty lookup
\* cache or an empty bundle cache misses and goes on to the request.
C17_UnloadEmptiesBoth ==
  [][/\ Signal => Size(zipCache') = 0 /\ Size(artifactCache') = 0
     /\ \A q \in Procs :
          /\ (ReadsLookup(q) /\ Size(artifactCache) = 0) =>
                proc'[q].lookupVia = "net" /\ proc'[q].pc = "lookupFetch"
          /\ (ReadsZip(q) /\ Size(zipCache) = 0) =>
                proc'[q].zipVia = "net" /\ proc'[q].pc = "zipFetch"]_vars

\* C17 witness: a pipeline attached a map after filling both caches from
\* the network, both caches are empty now, and a later pipeline is on its
\* way to its lookup.
C17_ClearedAfterAttach ==
  /\ Size(zipCache) = 0 /\ Size(artifactCache) = 0
  /\ \E p, q \in Procs :
        /\ proc[p].pc = "done" /\ proc[p].outcome = "attached"
        /\ proc[p].lookupVia = "net"
        /\ proc[q].pc \in {"tab", "config", "content"}
\* ------------------------------------------------------------- C18
\* Lines 223-232 called on their own with a text of up to MaxTextLen
\* characters: ASCII, two-, three- and four-byte characters, and an unpaired
\* surrogate.
MaxTextLen == 3
TextChars == {65, 233, 8364, 128512, 55296}

PayloadInit ==
  /\ LoadedBare
  /\ call \in {[fn |-> "attachArgument", text |-> t] : t \in Strings(TextChars, MaxTextLen)}
  /\ result = NoResult

AttachArgumentReturns == Returns("attachArgument", AttachArgument(call.text))

SpecPayload == PayloadInit /\ [][AttachArgumentReturns]_vars

\* C18: whenever attach is called for a text read from the archive, its
\* argument is data:application/json;base64, followed by a payload whose
\* base64 decoding, read as UTF-8, is that text.
C18_PayloadRoundTrip ==
  (result.done /\ result.value.attached) =>
     /\ result.value.uri.prefix = "data:application/json;base64,"
     /\ Utf8Decode(Atob(result.value.uri.payload)) = call.text

\* C18 witness: a payload was made of a text of full length with characters
\* outside ASCII.
C18_NonAsciiEncoded ==
  /\ result.done /\ result.value.attached
  /\ Len(call.text) = MaxTextLen
  /\ \E i, j \in 1..Len(call.text) : call.text[i] >= 65536 /\ call.text[j] \in 128..2047
\* ------------------------------------------------------------- C19
\* The place of each await of processResource in the order of the code.
Rank(pc) ==
  CASE pc = "idle" -> 0
    [] pc = "tab" -> 1
    [] pc = "config" -> 2
    [] pc = "content" -> 3
    [] pc = "lookupFetch" -> 4
    [] pc = "lookupJson" -> 5
    [] pc = "zipFetch" -> 6
    [] pc = "zipBlob" -> 7
    [] pc = "zipLoad" -> 8
    [] pc = "manifest" -> 9
    [] pc = "mapRead" -> 10
    [] OTHER -> 11

\* C19: a pipeline only moves forward through tab URL, token, script kind,
\* config match, debug id, lookup, manifest, map content, attach.  It reads
\* the content or makes a request only with a tab URL, a token, a script
\* and a matching config; it makes a request only with a debug id as well;
\* it turns to the bundle only with a bundle URL from the lookup, to the map
\* entry only with a parsed manifest that names it, and attaches only from
\* the read of the map.  At the storage callback the first of token, script
\* kind and config match that fails is the one the pipeline ends on.
C19_FixedOrder ==
  [][\A p \in Procs :
       Steps(p) =>
         LET l == proc'[p]
             cfg == LoadedConfig(stored)
         IN /\ proc[p].pc \notin {"idle", "done"} => Rank(l.pc) > Rank(proc[p].pc)
            /\ Rank(l.pc) \in 2..10 => l.tabUrl # <<>>
            /\ Rank(l.pc) \in 3..10 =>
                  /\ ~FalsyStr(l.token)
                  /\ l.resource.type = "script"
                  /\ l.matching # <<>>
            /\ Rank(l.pc) \in 4..10 => ~FalsyStr(l.buildId)
            /\ Rank(l.pc) \in 6..10 => l.bundles.tag = "array" /\ l.rawUrl # NoUrl
            /\ l.pc = "mapRead" =>
                  /\ proc[p].pc = "manifest"
                  /\ ArchiveOf(l.zip).manifest = "ok"
                  /\ l.mapPath # ""
            /\ attachLog' # attachLog => proc[p].pc = "mapRead"
            /\ (proc[p].pc = "tab" /\ l.pc = "done") => l.outcome = "noTab"
            /\ (proc[p].pc = "config" /\ l.pc = "done" /\ l.lookupUrl = NoKey) =>
                  l.outcome =
                    IF FalsyStr(cfg.sentryAuthToken) THEN "noToken"
                    ELSE IF proc[p].resource.type # "script" THEN "notScript"
                    ELSE IF FindMatchingConfigs(cfg.projectConfigs, proc[p].tabUrl) = <<>>
                    THEN "noConfig"
                    ELSE "noDebugId"]_vars

\* C19 witness: with neither a token nor a config stored, a pipeline ended
\* on the token, and nothing was requested or attached.
C19_EndedOnFirstFailing ==
  /\ FalsyStr(stored.sentryAuthToken) /\ stored.projectConfigs = <<>>
  /\ \E p \in Procs : proc[p].pc = "done" /\ proc[p].outcome = "noToken"
  /\ attachLog = <<>>
\* ------------------------------------------------------------- C20
\* The entries a cache holds under a key.
Entries(c, key) == {i \in 1..Len(c.cache) : c.cache[i].k = key}

\* C20: whenever a pipeline inserts what it fetched, also when another
\* pipeline that missed on the same key at the same time has inserted
\* before it, the cache then holds one entry under the key, with the value
\* of this later insertion, and no more entries than its capacity.
C20_LaterInsertionStands ==
  [][\A p \in Procs :
       /\ (/\ Steps(p)
           /\ proc[p].pc = "lookupJson"
           /\ proc[p].resp.body.tag # "unparsable") =>
             /\ Cardinality(Entries(artifactCache', proc[p].lookupUrl)) = 1
             /\ MapGet(artifactCache'.cache, proc[p].lookupUrl) = proc[p].resp.body
             /\ Size(artifactCache') <= artifactCache'.maxSize
       /\ (Steps(p) /\ proc[p].pc = "zipLoad" /\ proc'[p].pc = "manifest") =>
             /\ Cardinality(Entries(zipCache', proc[p].zipKey)) = 1
             /\ MapGet(zipCache'.cache, proc[p].zipKey) = proc'[p].zip
             /\ Size(zipCache') <= zipCache'.maxSize]_vars

\* C20 witness: two pipelines missed on one bundle URL while both were
\* downloading, both unpacked and inserted the archive, and the bundle
\* cache holds one entry under that URL.
C20_BothFetchedBothInserted ==
  \E k \in AllZipKeys :
    /\ zipRace[k]
    /\ zipLoads[k] = 2
    /\ Cardinality(Entries(zipCache, k)) = 1
    /\ Size(zipCache) <= zipCache.maxSize
\* ------------------------------------------------------------- C21
\* C21: the bundle a pipeline turns to is the first element of its lookup
\* result and stays the same to the end of the pipeline; a pipeline that
\* finds no manifest, or no entry of its debug id in the manifest, ends in
\* that step without attach; a pipeline whose lookup result is an empty
\* list ends with "noBundle" in the step that got the result, before any
\* bundle request.
C21_FirstElementOnly ==
  [][\A p \in Procs :
       Steps(p) =>
         LET l == proc'[p]
         IN /\ l.rawUrl # NoUrl =>
                 /\ l.bundles.tag = "array" /\ l.bundles.items # <<>>
                 /\ l.rawUrl = l.bundles.items[1]
                 /\ l.zipKey = UrlToString(NormalizeBundleUrl(l.bundles.items[1]))
            /\ (proc[p].rawUrl # NoUrl /\ l.pc # "done") =>
                 l.rawUrl = proc[p].rawUrl /\ l.zipKey = proc[p].zipKey
            /\ (/\ proc[p].pc = "manifest"
                /\ \/ ArchiveOf(proc[p].zip).manifest # "ok"
                   \/ MapsOf(proc[p].zip, proc[p].buildId) = {}) =>
                 l.pc = "done" /\ attachLog' = attachLog
            /\ l.bundles = JsArray(<<>>) =>
                 /\ l.pc = "done" /\ l.outcome = "noBundle"
                 /\ Rank(proc[p].pc) <= 5]_vars

\* C21 witness: a lookup named two bundles, the first without manifest; the
\* pipeline ended there and nothing was attached.
C21_SecondBundleNotTried ==
  /\ attachLog = <<>>
  /\ \E p \in Procs :
        /\ proc[p].pc = "done" /\ proc[p].outcome = "noManifest"
        /\ proc[p].bundles.tag = "array" /\ Len(proc[p].bundles.items) = 2
        /\ RemoteArchive(proc[p].bundles.items[2].pathname).manifest = "ok"
\* ------------------------------------------------------------- C22
\* Lines 52-62 when the settings read fails: the storage callback runs
\* without a result, result.sentryAuthToken throws inside it before config
\* is assigned, and the promise of loadConfig, which has no reject path, is
\* never settled.  The call stays at its await of line 102.
ConfigReadFails(p) ==
  /\ proc[p].pc = "config"
  /\ Commit(p, [proc[p] EXCEPT !.pc = "configFailed"], artifactCache, zipCache)
  /\ UNCHANGED <<harness, stored, cfgObj, configRef, events, attachLog>>

\* The external call pipeline p waits on returns or fails.
Resumes(p) ==
  \/ \E tab \in TabResults : TabReturns(p, tab)
  \/ ConfigLoaded(p)
  \/ ConfigReadFails(p)
  \/ ContentReturns(p)
  \/ \E resp \in LookupResponses : LookupFetchReturns(p, resp)
  \/ LookupJsonReturns(p)
  \/ \E resp \in ZipResponses(proc[p].zipUrl) : ZipFetchReturns(p, resp)
  \/ ZipBlobReturns(p)
  \/ ZipLoadReturns(p)
  \/ ManifestRead(p)
  \/ MapRead(p)

LiveNext ==
  \/ \E p \in Procs, res \in Resources : Start(p, res)
  \/ \E p \in Procs : Resumes(p)
  \/ Unload

\* Every call a pipeline waits on returns or fails in the end.
SpecLive == Init /\ [][LiveNext]_vars /\ \A p \in Procs : WF_vars(Resumes(p))

\* C22 as stated: a pipeline that has started ends.
C22_EveryPipelineEnds ==
  \A p \in Procs : (proc[p].pc \notin {"idle", "done"}) ~> (proc[p].pc = "done")
\* ------------------------------------------------------------- settings changes
\* One key of the changes object handed to the storage.onChanged listener:
\* absent when the key did not change; has says whether newValue is there
\* (it is not after a remove).
NoChange == [changed |-> FALSE, has |-> FALSE, newValue |-> <<>>]
StorageChange(new) == [changed |-> TRUE, has |-> TRUE, newValue |-> new]
Removed == [changed |-> TRUE, has |-> FALSE, newValue |-> <<>>]

\* A listener that adds the new list to the one in memory.
OnChangedMerge(cfg, changes) ==
  [sentryAuthToken |->
     IF ~changes.sentryAuthToken.changed THEN cfg.sentryAuthToken
     ELSE IF changes.sentryAuthToken.has THEN changes.sentryAuthToken.newValue
     ELSE Undefined,
   projectConfigs |->
     IF ~changes.projectConfigs.changed THEN cfg.projectConfigs
     ELSE IF changes.projectConfigs.has
     THEN cfg.projectConfigs \o changes.projectConfigs.newValue
     ELSE cfg.projectConfigs]

\* Lines 65-73: what the listener makes of the object config refers to.
OnChanged(cfg, changes) ==
  [sentryAuthToken |->
     IF ~changes.sentryAuthToken.changed THEN cfg.sentryAuthToken
     ELSE IF changes.sentryAuthToken.has THEN changes.sentryAuthToken.newValue
     ELSE Undefined,
   projectConfigs |->
     IF ~changes.projectConfigs.changed THEN cfg.projectConfigs
     ELSE IF changes.projectConfigs.has THEN changes.projectConfigs.newValue
     ELSE <<>>]

\* chrome.storage.sync after the write that the changes object reports.
Written(st, changes) ==
  [sentryAuthToken |->
     IF ~changes.sentryAuthToken.changed THEN st.sentryAuthToken
     ELSE IF changes.sentryAuthToken.has THEN changes.sentryAuthToken.newValue
     ELSE Undefined,
   projectConfigs |->
     IF ~changes.projectConfigs.changed THEN st.projectConfigs
     ELSE IF changes.projectConfigs.has THEN changes.projectConfigs.newValue
     ELSE <<>>]

\* The writes of the settings page: a token set or removed, a config list
\* set, both keys removed.
SettingsChanges ==
  {[sentryAuthToken |-> StorageChange("sntryu_B"), projectConfigs |-> NoChange],
   [sentryAuthToken |-> Removed, projectConfigs |-> NoChange],
   [sentryAuthToken |-> NoChange, projectConfigs |-> StorageChange(<<Cfg2, Cfg1>>)],
   [sentryAuthToken |-> Removed, projectConfigs |-> Removed]}

\* A write to chrome.storage.sync and the run of the listener of lines
\* 65-73 that it causes: config is mutated in place.  The changes object
\* names the keys whose value differs.
Change(changes) ==
  /\ Written(stored, changes) # stored
  /\ changes.sentryAuthToken.changed =>
        Written(stored, changes).sentryAuthToken # stored.sentryAuthToken
  /\ changes.projectConfigs.changed =>
        Written(stored, changes).projectConfigs # stored.projectConfigs
  /\ stored' = Written(stored, changes)
  /\ cfgObj' = [cfgObj EXCEPT ![configRef] = OnChanged(cfgObj[configRef], changes)]
  /\ UNCHANGED <<zipCache, artifactCache, configRef, proc, events, attachLog,
                 zipLoads, zipRace, lookupDone, lookupEnded, harness>>

\* The module after the loadConfig() of line 91 returned, with a token and
\* three configs stored.
SettingsInit ==
  /\ zipCache = NewLRUCache(MaxSize)
  /\ artifactCache = NewLRUCache(MaxSize)
  /\ stored = [sentryAuthToken |-> "sntryu_A", projectConfigs |-> <<Cfg0, Cfg1, Cfg2>>]
  /\ cfgObj = [i \in {0} \cup Procs |->
                 IF i = 0 THEN LoadedConfig(stored)
                 ELSE [sentryAuthToken |-> Null, projectConfigs |-> <<>>]]
  /\ configRef = 0
  /\ proc = [p \in Procs |-> Fresh]
  /\ events = 0
  /\ attachLog = <<>>
  /\ zipLoads = [k \in AllZipKeys |-> 0]
  /\ zipRace = [k \in AllZipKeys |-> FALSE]
  /\ lookupDone = [k \in AllLookupKeys |-> JsUndefined]
  /\ lookupEnded = [k \in AllLookupKeys |-> FALSE]
  /\ recency = <<>>
  /\ insertOrder = <<>>
  /\ lastOp = NoOp
  /\ call = NoCall
  /\ result = NoResult

SettingsResources ==
  {Resource("r1", "script", "d1", Text("d2", Undefined)),
   Resource("r2", "script", Undefined, Text("d2", "d1"))}

SettingsNext ==
  \/ \E p \in Procs, res \in SettingsResources : Start(p, res)
  \/ \E p \in Procs : TabReturns(p, [tab |-> TRUE, url |-> <<"a", "b">>])
  \/ \E p \in Procs : ConfigLoaded(p)
  \/ \E p \in Procs : ContentReturns(p)
  \/ \E p \in Procs :
       LookupFetchReturns(p, Response(TRUE, JsArray(<<CanonUrl("/b1")>>)))
  \/ \E p \in Procs : LookupJsonReturns(p)
  \/ \E p \in Procs : \E resp \in ZipResponses(proc[p].zipUrl) :
       resp.ok /\ ZipFetchReturns(p, resp)
  \/ \E p \in Procs : ZipBlobReturns(p)
  \/ \E p \in Procs : ZipLoadReturns(p)
  \/ \E p \in Procs : ManifestRead(p)
  \/ \E p \in Procs : MapRead(p)
  \/ Unload
  \/ \E changes \in SettingsChanges : Change(changes)

SpecSettings == SettingsInit /\ [][SettingsNext]_vars
\* ------------------------------------------------------------- C23
\* The object the global variable config refers to.
InMemory == cfgObj[configRef]

\* Two tokens are the same token, or both are absent.
SameToken(a, b) == (a \in {Undefined, Null} /\ b \in {Undefined, Null}) \/ a = b

\* A call of loadConfig has not returned yet.
ReadPending == \E p \in Procs : proc[p].pc = "config"

\* C23: unless a settings read is pending, the token in memory is the
\* stored token (absent when it was removed) and the config list in memory
\* is the stored list (empty when it was removed), entry for entry.
C23_InMemoryIsStored ==
  ~ReadPending =>
     /\ SameToken(InMemory.sentryAuthToken, stored.sentryAuthToken)
     /\ InMemory.projectConfigs = stored.projectConfigs

\* C23 witness: before any pipeline read the settings, change notifications
\* replaced the token and the three-entry list by another token and a
\* two-entry list.
C23_ReplacedByListener ==
  /\ configRef = 0 /\ ~ReadPending
  /\ stored = [sentryAuthToken |-> "sntryu_B", projectConfigs |-> <<Cfg2, Cfg1>>]
  /\ InMemory = stored
\* ------------------------------------------------------------- C24
\* C24 as stated: the token a pipeline puts into the headers of its
\* requests, after the content read, is the one it read at its token step,
\* and is not absent.
C24_TokenOfTheSnapshot ==
  [][\A p \in Procs :
       (Steps(p) /\ proc[p].pc = "content" /\ proc'[p].pc # "done") =>
          /\ proc'[p].token = proc[p].token
          /\ ~FalsyStr(proc'[p].token)]_vars
\* ------------------------------------------------------------- C25
\* The lookup cache holds a result, not falsy, that was stored for this
\* lookup URL (organization, project and debug id), with whatever token.
CachedFor(url) ==
  \E i \in 1..Len(artifactCache.cache) :
    /\ SubSeq(artifactCache.cache[i].k, 1, Len(url)) = url
    /\ ~Falsy(artifactCache.cache[i].v)

\* C25: a pipeline whose lookup URL has a result in the lookup cache, or
\* whose normalized bundle URL has an archive in the bundle cache, is served
\* that entry and issues no request for it, whatever token it runs with and
\* whatever token the pipeline that stored the entry ran with.
C25_KeyIgnoresToken ==
  [][\A q \in Procs :
       /\ (ReadsLookup(q) /\ CachedFor(proc'[q].lookupUrl)) =>
             /\ proc'[q].lookupVia = "cache"
             /\ proc'[q].pc # "lookupFetch"
             /\ proc'[q].bundles = MapGet(artifactCache.cache, proc'[q].lookupUrl)
       /\ (ReadsZip(q) /\ MapHas(zipCache.cache, proc'[q].zipKey)) =>
             /\ proc'[q].zipVia = "cache"
             /\ proc'[q].pc # "zipFetch"
             /\ proc'[q].zip = MapGet(zipCache.cache, proc'[q].zipKey)]_vars

\* C25 witness: a pipeline that sent its requests with one token has filled
\* both caches, and a pipeline that runs with another token was served its
\* lookup result and its archive from them.
C25_OtherTokenServed ==
  \E p, q \in Procs :
    /\ proc[p].pc \in {"manifest", "mapRead"}
    /\ proc[p].lookupVia = "net" /\ proc[p].zipVia = "net"
    /\ proc[q].pc \in {"manifest", "mapRead"}
    /\ proc[q].lookupVia = "cache" /\ proc[q].zipVia = "cache"
    /\ proc[q].lookupUrl = proc[p].lookupUrl
    /\ ~FalsyStr(proc[p].token) /\ ~FalsyStr(proc[q].token)
    /\ proc[q].token # proc[p].token
\* ------------------------------------------------------------- C26
\* The engine while one pipeline, for a script of debug id d1 on a page the
\* config of o/p matches, waits for its lookup response, both caches still
\* empty; events counts the events delivered from here on.
WaitingForLookup ==
  [Fresh EXCEPT !.pc = "lookupFetch",
                !.resource = Resource("r1", "script", "d1", Text("d2", Undefined)),
                !.tabUrl = <<"a", "b">>,
                !.token = "sntryu_A",
                !.matching = <<Cfg1, Cfg2>>,
                !.buildId = "d1",
                !.lookupUrl = LookupUrl("o", "p", "d1"),
                !.lookupVia = "net"]

EmptyInit ==
  /\ zipCache = NewLRUCache(MaxSize)
  /\ artifactCache = NewLRUCache(MaxSize)
  /\ stored = [sentryAuthToken |-> "sntryu_A", projectConfigs |-> <<Cfg0, Cfg1, Cfg2>>]
  /\ cfgObj = [i \in {0} \cup Procs |->
                 IF i = 1 THEN LoadedConfig(stored)
                 ELSE [sentryAuthToken |-> Null, projectConfigs |-> <<>>]]
  /\ configRef = 1
  /\ proc = [p \in Procs |-> IF p = 1 THEN WaitingForLookup ELSE Fresh]
  /\ events = 0
  /\ attachLog = <<>>
  /\ zipLoads = [k \in AllZipKeys |-> 0]
  /\ zipRace = [k \in AllZipKeys |-> FALSE]
  /\ lookupDone = [k \in AllLookupKeys |-> JsUndefined]
  /\ lookupEnded = [k \in AllLookupKeys |-> FALSE]
  /\ recency = <<>>
  /\ insertOrder = <<>>
  /\ lastOp = NoOp
  /\ call = NoCall
  /\ result = NoResult

\* Events for that same script follow; the lookup answers with an empty
\* list or with one bundle; nothing evicts (one lookup URL, one bundle URL)
\* and nothing clears.
EmptyNext ==
  \/ \E p \in Procs : Start(p, Resource("r1", "script", "d1", Text("d2", Undefined)))
  \/ \E p \in Procs : TabReturns(p, [tab |-> TRUE, url |-> <<"a", "b">>])
  \/ \E p \in Procs : ConfigLoaded(p)
  \/ \E p \in Procs, l \in {<<>>, <<CanonUrl("/b1")>>} :
       LookupFetchReturns(p, Response(TRUE, JsArray(l)))
  \/ \E p \in Procs : LookupJsonReturns(p)
  \/ \E p \in Procs : \E resp \in ZipResponses(proc[p].zipUrl) :
       resp.ok /\ ZipFetchReturns(p, resp)
  \/ \E p \in Procs : ZipBlobReturns(p)
  \/ \E p \in Procs : ZipLoadReturns(p)
  \/ \E p \in Procs : ManifestRead(p)
  \/ \E p \in Procs : MapRead(p)

\* Every call a pipeline waits on returns in the end, and the events arrive.
SpecEmpty == EmptyInit /\ [][EmptyNext]_vars /\ WF_vars(EmptyNext)

\* C26 (as amended): when the result last parsed for a lookup URL is the
\* empty list, and no eviction or clear has come since, a pipeline with
\* that lookup URL is served the empty list from the cache and ends with
\* "noBundle" in that step, without a request.
C26_EmptyResultServed ==
  [][\A q \in Procs :
       (ReadsLookup(q) /\ lookupDone[proc'[q].lookupUrl] = JsArray(<<>>)) =>
          /\ proc'[q].lookupVia = "cache"
          /\ proc'[q].bundles = JsArray(<<>>)
          /\ proc'[q].pc = "done" /\ proc'[q].outcome = "noBundle"]_vars

\* C26 witness: a pipeline was served the empty list from the cache and
\* ended with "noBundle".
C26_NoBundleFromCache ==
  \E q \in Procs :
    /\ proc[q].pc = "done" /\ proc[q].outcome = "noBundle"
    /\ proc[q].lookupVia = "cache"
    /\ proc[q].bundles = JsArray(<<>>)

\* C26 as stated, where nothing evicts or clears: once an event has ended
\* on an empty lookup result (the result last parsed for the URL is the
\* empty list), every event that starts later and has the same lookup URL
\* is served the empty list from the cache.
C26_NoBundleEverAfter ==
  \A q \in Procs :
    []((proc[q].pc = "tab" /\ lookupDone[LookupUrl("o", "p", "d1")] = JsArray(<<>>)) =>
         [](proc[q].lookupUrl = LookupUrl("o", "p", "d1") =>
              proc[q].lookupVia = "cache" /\ proc[q].bundles = JsArray(<<>>)))
====
